---- MODULE Spec2Model ----
(***************************************************************************)
(* A model of the biomedica-etl batch pipeline (PMC Open Access):          *)
(*   - scripts/04_build_json.py, the resume controller of the JSON stage,  *)
(*     with pmc_oa/build_json.py::build_json, the shard-rotating writer;   *)
(*   - pmc_oa/build_json.py::build_nxml_metadata, the record assembler;    *)
(*   - scripts/05_json_to_entrez.py, the enrichment post-pass and its      *)
(*     JSON completion and error logs.                                     *)
(* Files are modelled by their content: a JSON file is a sequence of       *)
(* tokens, so that an in-place rewrite can be interrupted between tokens.  *)
(***************************************************************************)
EXTENDS Integers, Sequences, FiniteSets, TLC

\* ------------------------------------------------------------------ bounds

\* Rows of the batch manifest (filelist_<license>_batch_<i>_fixed.csv).
NumItems == 3
\* batch_size ranges over 1..MaxBatch (the script's default is 200).
MaxBatch == 3
\* Invocations of a script on the same batch.
MaxRuns == 3
\* Times a script's process is killed while it runs.
MaxCrashes == 2
\* Shard files listed in the csv given to scripts/05_json_to_entrez.py.
NumShards == 3

\* Python's None, as it ends up in a record.
None == "None"

\* ------------------------------------------------- JSON files as tokens

\* A token that is not a record carries this in its v field.
NoValue == [k \in {} |-> None]

Tok(t) == [t |-> t, v |-> NoValue]

RecTok(r) == [t |-> "rec", v |-> r]

\* json.dump(list, f): "[", the records separated by ",", "]".
RECURSIVE DumpItems(_)
DumpItems(data) ==
    IF data = <<>> THEN <<>>
    ELSE IF Len(data) = 1 THEN <<RecTok(data[1])>>
    ELSE <<RecTok(data[1]), Tok(",")>> \o DumpItems(Tail(data))

json_dump(data) == <<Tok("[")>> \o DumpItems(data) \o <<Tok("]")>>

\* The token kinds of a file content.
Kinds(bytes) == [i \in 1..Len(bytes) |-> bytes[i].t]

\* The records of a file content, whole or not, in order.
RECURSIVE Records(_)
Records(bytes) ==
    IF bytes = <<>> THEN <<>>
    ELSE IF bytes[1].t = "rec" THEN <<bytes[1].v>> \o Records(Tail(bytes))
    ELSE Records(Tail(bytes))

\* json.load succeeds exactly on what json.dump writes for some list.
Parses(bytes) == Kinds(bytes) = Kinds(json_dump(Records(bytes)))

\* json.load(f): the list, or JSONDecodeError.
json_load(bytes) ==
    IF Parses(bytes) THEN [ok |-> TRUE, data |-> Records(bytes)]
    ELSE [ok |-> FALSE, data |-> <<>>]

\* ------------------------------------------------------- the manifest

\* Accession ids of the manifest rows, in manifest order.
AccessionSeq == <<"PMC1", "PMC2", "PMC3", "PMC4", "PMC5", "PMC6">>

Accessions == {AccessionSeq[i] : i \in 1..NumItems}

\* The Citation column, by example: empty, journal and full date, journal and
\* year only, and a citation without the ". " that precedes the date.
Citations == {"", "J Cell. 2020 Jan 5;1(1):1", "Nature. 2019;2:3", "eLife"}

\* extract_journal: the text before the first "." or ";", when there is one.
extract_journal(citation) ==
    CASE citation = "J Cell. 2020 Jan 5;1(1):1" -> "J Cell"
      [] citation = "Nature. 2019;2:3" -> "Nature"
      [] OTHER -> None

\* extract_date_from_citation: "YYYY MM DD" after the first ". ", a missing
\* month or day defaulting to 1.
extract_date_from_citation(citation) ==
    CASE citation = "J Cell. 2020 Jan 5;1(1):1" -> "2020 01 05"
      [] citation = "Nature. 2019;2:3" -> "2019 01 01"
      [] OTHER -> None

\* ensure_unix: the timestamp of a "YYYY MM DD" date, as a string.
ensure_unix(date_string) ==
    CASE date_string = None -> None
      [] date_string = "2020 01 05" -> "1578182400"
      [] date_string = "2019 01 01" -> "1546300800"
      [] OTHER -> date_string

\* path_generator: one row of the manifest.
ManifestRow(acc, citation, license, pmid) ==
    [File |-> acc, Citation |-> citation, Accession_ID |-> acc,
     Date |-> "2020", License |-> license, PMID |-> pmid]

Rows == {ManifestRow(acc, c, l, p) :
            acc \in Accessions, c \in Citations, l \in {"", "CC BY"}, p \in {"", "111"}}

\* The rows of the batch the pipeline runs on: every second row has no PMID.
BatchRow(i) ==
    ManifestRow(AccessionSeq[i],
                IF i % 2 = 1 THEN "J Cell. 2020 Jan 5;1(1):1" ELSE "Nature. 2019;2:3",
                "CC BY",
                IF i % 2 = 1 THEN "111" ELSE "")

batch_filelist_fixed == [i \in 1..NumItems |-> BatchRow(i)]

\* ------------------------------------------- python dicts as functions

\* d1.update(d2)
Update(d1, d2) ==
    [k \in DOMAIN d1 \cup DOMAIN d2 |-> IF k \in DOMAIN d2 THEN d2[k] ELSE d1[k]]

\* d.pop(key, None)
Pop(d, key) == [k \in DOMAIN d \ {key} |-> d[k]]

\* x or None, for a string x
OrNone(x) == IF x = "" THEN None ELSE x

\* ------------------------------------------------ the media directory

\* What the download stage left for one article: the directory
\* media_files/<pmcid>, its .nxml document and its .jpg images, and what the
\* document holds.
\*   nxml:      "none" (no .nxml file), "bad" (not well-formed), "good"
\*   articleid: the <article-id> elements as xmltodict returns them
\*   fig:       what the document holds for the image: "nofig" (no <graphic>
\*              with its name), "nocaption" (a figure without a <caption>),
\*              "empty" (a <caption> without text), "text" (a caption)
Docs ==
    [dir : BOOLEAN, nxml : {"none", "bad", "good"}, jpg : BOOLEAN,
     titlegroup : BOOLEAN, kwd : {None, "kw"},
     articleid : {"absent", "single", "list", "list_pmid"},
     categories : {None, "cat"},
     fig : {"nofig", "nocaption", "empty", "text"}]

\* A complete article with one figure.
GoodDoc ==
    [dir |-> TRUE, nxml |-> "good", jpg |-> TRUE, titlegroup |-> TRUE,
     kwd |-> "kw", articleid |-> "list_pmid", categories |-> "cat",
     fig |-> "text"]

\* The archive was never downloaded.
NoDirDoc == [GoodDoc EXCEPT !.dir = FALSE]

\* The document is not well-formed XML.
BadXmlDoc == [GoodDoc EXCEPT !.nxml = "bad"]

\* ------------------------------------------------ the record assembler

\* default_article_dict(): every key, every value None.
default_article_dict ==
    [accession_id |-> None, citation |-> None, license |-> None, date |-> None,
     journal |-> None, title |-> None, abstract |-> None, keyword |-> None,
     pmid |-> None, article_categories |-> None, mesh |-> None,
     figure_set |-> None, context |-> None, nxml |-> None]

\* extract_info_from_filelist_row(row): the fields taken from the manifest
\* row, an empty string read as None.
extract_info_from_filelist_row(row) ==
    [accession_id |-> OrNone(row.Accession_ID),
     citation |-> OrNone(row.Citation),
     license |-> OrNone(row.License),
     date |-> ensure_unix(extract_date_from_citation(row.Citation)),
     journal |-> extract_journal(row.Citation),
     pmid |-> OrNone(row.PMID)]

\* A fallback dict without the abstract key.
nxml_metadata_fallback_NoAbstract ==
    [title |-> None, keyword |-> None, pmid |-> None,
     article_categories |-> None, mesh |-> None]

\* The dict build_nxml_metadata falls back to when extract_metadata_from_nxml
\* raises.
nxml_metadata_fallback ==
    [title |-> None, keyword |-> None, pmid |-> None,
     article_categories |-> None, abstract |-> None, mesh |-> None]

\* extract_metadata_from_nxml(path): raises when the file cannot be opened or
\* parsed; title, keyword, pmid and categories are read in one try block, so
\* one failure among them leaves all four None.
extract_metadata_from_nxml(doc) ==
    IF doc.nxml # "good" THEN [raised |-> TRUE, value |-> nxml_metadata_fallback]
    ELSE LET failed == ~doc.titlegroup \/ doc.articleid \in {"absent", "single"}
         IN [raised |-> FALSE,
             value |->
               [title |-> IF failed THEN None ELSE "Title",
                keyword |-> IF failed THEN None ELSE doc.kwd,
                pmid |-> IF failed \/ doc.articleid # "list_pmid" THEN None ELSE "222",
                article_categories |-> IF failed THEN None ELSE doc.categories,
                abstract |-> None,
                mesh |-> None]]

\* extract_caption_from_nxml(file_path, image_identifier): raises when the
\* document cannot be parsed; the stripped text of the <caption> of the
\* figure holding the graphic, 'No caption found' when that figure has no
\* <caption>, '' when no graphic has the image's name.
extract_caption_from_nxml(doc) ==
    IF doc.nxml # "good" THEN [raised |-> TRUE, value |-> None]
    ELSE [raised |-> FALSE,
          value |-> CASE doc.fig = "nofig" -> ""
                      [] doc.fig = "nocaption" -> "No caption found"
                      [] doc.fig = "empty" -> ""
                      [] OTHER -> "Caption"]

\* json.dump of one image_dict, as far as its caption goes.
Figure(caption) == "[fig1 caption=" \o caption \o "]"

\* The figure_set of build_nxml_metadata: one figure per .jpg; its caption is
\* None when extract_caption_from_nxml raises, and 'caption if caption else
\* None' otherwise.
FigureSet(doc) ==
    IF ~doc.jpg THEN "[]"
    ELSE LET r == extract_caption_from_nxml(doc)
             caption == IF r.raised THEN None ELSE r.value
         IN Figure(OrNone(caption))

\* build_nxml_metadata(file_path, article_row, data_dir, out_dir): raises when
\* the media directory is missing (get_nxml_path lists it outside any try).
build_nxml_metadata(article_row, doc) ==
    LET filelist_dict == extract_info_from_filelist_row(article_row)
        meta == extract_metadata_from_nxml(doc)
        nxml_metadata ==
            IF filelist_dict.pmid # None THEN Pop(meta.value, "pmid") ELSE meta.value
        article == Update(Update(filelist_dict, nxml_metadata),
                          [figure_set |-> FigureSet(doc),
                           context |-> IF doc.nxml = "good" THEN "{ctx}" ELSE None,
                           nxml |-> IF doc.nxml = "good" THEN "text" ELSE None])
    IN [raised |-> ~doc.dir, value |-> article]

\* build_json, "Extract meta data": the record of one row, the default record
\* when build_nxml_metadata raises.
ExtractMetaData(article_row, doc) ==
    LET r == build_nxml_metadata(article_row, doc)
    IN IF r.raised THEN [raised |-> TRUE, value |-> default_article_dict]
       ELSE r

\* ------------------------------------------ the JSON stage: its state

VARIABLES
    batch_size,       \* --batch_size of scripts/04_build_json.py
    media,            \* accession id -> what media_files/<pmcid> holds
    shards,           \* json_dir: shard path <<filelist_name, index>> -> content
    completed_list,   \* log_json/json_<license>_complete_batch_<i>.csv
    error_list,       \* log_json/json_<license>_error_batch_<i>.csv
    pc,               \* where the running script is; "idle" when none runs
    file_list_path,   \* the manifest build_json was given
    file_list,        \* its rows
    row_index,        \* the row path_generator yields next
    json_file_path,   \* build_json's json_file_path
    f,                \* the shard opened 'r+' for the row at hand
    f_bytes,          \* history: what that file held when it was opened
    current_data,     \* what build_json loaded from it
    article,          \* the record of the row at hand
    runs,             \* invocations of the script so far
    crashes,          \* kills so far
    attempted,        \* history: accession ids this run has started on
    done_at_start,    \* history: ids in completed_list when this run started
    exit_status,      \* history: how the last run ended
    errors_at_start,  \* history: rows in error_list when this run started
    high_water        \* history: shard path -> the most records a finished
                      \*          write has left in it

json_vars ==
    <<batch_size, media, shards, completed_list, error_list, pc, file_list_path,
      file_list, row_index, json_file_path, f, f_bytes, current_data, article, runs,
      crashes, attempted, done_at_start, exit_status, errors_at_start,
      high_water>>

\* The record assembler applied to one row and one media directory.
VARIABLES
    in_row,           \* the manifest row
    in_doc,           \* what media_files/<pmcid> holds
    out_article,      \* the record build_json appends for it
    out_raised        \* "pending" before, then whether build_nxml_metadata raised

asm_vars == <<in_row, in_doc, out_article, out_raised>>

\* scripts/05_json_to_entrez.py, json_to_entrez_from_csv.
VARIABLES
    shard_pmids,      \* shard path -> whether a record of it has a pmid
    out_dir_path,     \* --out-dir-path of the script
    shard_enriched,   \* the shard files that hold enriched records
    completed_log,    \* the file at completed_log_file_path, as tokens
    error_log,        \* the file at error_log_file_path, as tokens
    out_dir,          \* the output copies written so far
    e_pc,             \* where the running script is; "idle" when none runs
    completed_files,  \* the set completed_files of the running script
    error_files,      \* the set error_files of the running script
    remaining_files,  \* what its loop has not reached yet
    json_path,        \* the shard at hand
    attempt,          \* efetch attempts made for it
    e_runs,           \* invocations so far
    e_crashes,        \* kills so far
    e_attempted,      \* history: the shards this run has started on
    e_remaining_at_start, \* history: all_files - completed_files at its start
    e_exhausted,      \* history: the shards whose efetch attempts this run used up
    e_durable,        \* history: shards whose completion a finished save wrote
    e_exit            \* history: how the last run ended

entrez_vars ==
    <<shard_pmids, out_dir_path, shard_enriched, completed_log, error_log, out_dir,
      e_pc, completed_files,
      error_files, remaining_files, json_path, attempt, e_runs, e_crashes,
      e_attempted, e_remaining_at_start, e_exhausted, e_durable, e_exit>>

\* pmc_oa/build_json.py, extract_context, on one document.
VARIABLES
    x_figs,           \* the <fig> elements: id and xlink:href of the graphic
    x_orig,           \* the <p> elements as parsed: their fig xrefs in order
    x_paras,          \* the same elements of the tree, as they are now
    x_i,              \* the xref of root.findall(...) the loop is at
    x_paragraphs,     \* the list paragraphs of extract_context
    x_context,        \* the dict it returns
    x_pc,             \* "loop", then "done"
    x_linked          \* history: the xrefs whose rid the loop found in id_map

ctx_vars ==
    <<x_figs, x_orig, x_paras, x_i, x_paragraphs, x_context, x_pc, x_linked>>

\* pmc_oa/download_batch.py, download_media_from_filelist, on one manifest.
VARIABLES
    d_media,          \* accession ids whose media directory exists
    d_completed,      \* the completed log of the download stage
    d_error,          \* its error log
    d_pc,             \* where the stage is; "idle" before and after
    d_row,            \* the manifest row the loop is at
    retries,          \* retries of download_media
    transfers,        \* history: ftp.retrbinary calls made for the row
    d_got             \* history: whether the last transfer made for the row completed

dl_vars ==
    <<d_media, d_completed, d_error, d_pc, d_row, retries, transfers, d_got>>

\* pmc_oa/build_json.py, clean_paragraph_except_xref, on one <p> element.
VARIABLES
    c_paragraph,      \* the <p> element: text, children, tail
    c_cleaned,        \* the text it returns
    c_pc              \* "call", then "done"

clean_vars == <<c_paragraph, c_cleaned, c_pc>>

vars == <<json_vars, asm_vars, entrez_vars, ctx_vars, dl_vars, clean_vars>>

\* What an action of one part leaves alone.
not_json_vars == <<asm_vars, entrez_vars, ctx_vars, dl_vars, clean_vars>>

not_asm_vars == <<json_vars, entrez_vars, ctx_vars, dl_vars, clean_vars>>

not_entrez_vars == <<json_vars, asm_vars, ctx_vars, dl_vars, clean_vars>>

not_ctx_vars == <<json_vars, asm_vars, entrez_vars, dl_vars, clean_vars>>

not_clean_vars == <<json_vars, asm_vars, entrez_vars, ctx_vars, dl_vars>>

not_dl_vars == <<json_vars, asm_vars, entrez_vars, ctx_vars, clean_vars>>

\* A log file that does not exist yet, and one with its header row only.
NoFile == [exists |-> FALSE, rows |-> <<>>]

EmptyLog == [exists |-> TRUE, rows |-> <<>>]

\* No shard is open, no path is set.
NoPath == <<"", 0>>

\* The documents the JSON stage meets: a complete article, or an article
\* whose archive was never downloaded.
StageDocs == {GoodDoc, NoDirDoc}

\* The manifest given on a first attempt, and the subset written on resume.
FixedCsv == "filelist_toy_batch_0_fixed.csv"

SubsetCsv == "filelist_json/json_filelist_toy_batch_0.csv"

\* filelist_name of build_json: the manifest's base name without its
\* extension and without "_fixed".
filelist_name(path) ==
    IF path = FixedCsv THEN "filelist_toy_batch_0" ELSE "json_filelist_toy_batch_0"

\* create_log_file + append_row_to_csv: the header is written once, then the row.
append_row_to_csv(log, row) == [exists |-> TRUE, rows |-> Append(log.rows, row)]

\* The Accession_ID column of a log or of a manifest.
AccessionIds(rows) == {rows[i].Accession_ID : i \in 1..Len(rows)}

\* A comparison that counts the header row of the manifest only.
compare_csv_row_counts_OneHeader(rows1, rows2) == Len(rows1) + 1 = Len(rows2)

\* compare_csv_row_counts(file1, file2): both counts include the header row.
compare_csv_row_counts(rows1, rows2) == Len(rows1) + 1 = Len(rows2) + 1

\* A resume that takes the whole manifest again.
create_subset_WholeManifest(rows1, rows2) == rows1

\* create_subset_based_on_file_diff: the rows of the manifest whose
\* Accession_ID is not in the completed log, in manifest order.
create_subset_based_on_file_diff(rows1, rows2) ==
    LET file_diff == AccessionIds(rows1) \ AccessionIds(rows2)
    IN SelectSeq(rows1, LAMBDA r : r.Accession_ID \in file_diff)

\* get_next_index(json_dir, filelist_name): one more than the largest index
\* of a shard file of that name, 0 when there is none.
get_next_index(dir, name) ==
    LET versions == {p[2] : p \in {q \in DOMAIN dir : q[1] = name}}
    IN IF versions = {} THEN 0
       ELSE (CHOOSE v \in versions : \A w \in versions : w <= v) + 1

Max(a, b) == IF a >= b THEN a ELSE b

\* The most records a finished write has left in a shard, 0 before any.
HighWater(path) == IF path \in DOMAIN high_water THEN high_water[path] ELSE 0

\* The number of whole records a shard file holds.
RecordCount(path) == Len(Records(shards[path]))

\* Before the first invocation: no shard, no log, no process.
JsonFresh ==
    /\ shards = <<>>
    /\ completed_list = NoFile
    /\ error_list = NoFile
    /\ pc = "idle"
    /\ file_list_path = ""
    /\ file_list = <<>>
    /\ row_index = 1
    /\ json_file_path = NoPath
    /\ f = NoPath
    /\ f_bytes = <<>>
    /\ current_data = <<>>
    /\ article = default_article_dict
    /\ runs = 0
    /\ crashes = 0
    /\ attempted = <<>>
    /\ done_at_start = {}
    /\ exit_status = "none"
    /\ errors_at_start = 0
    /\ high_water = <<>>

JsonInit ==
    /\ batch_size \in 1..MaxBatch
    /\ media \in [Accessions -> StageDocs]
    /\ JsonFresh

\* The JSON stage when another part of the pipeline is looked at.
JsonParked ==
    /\ batch_size = 1
    /\ media = [acc \in Accessions |-> GoodDoc]
    /\ JsonFresh

\* ---------------------------------------- the JSON stage: its actions

\* The process is gone: its variables with it.
ProcessGone ==
    /\ pc' = "idle"
    /\ file_list_path' = ""
    /\ file_list' = <<>>
    /\ row_index' = 1
    /\ json_file_path' = NoPath
    /\ f' = NoPath
    /\ f_bytes' = <<>>
    /\ current_data' = <<>>
    /\ article' = default_article_dict

\* The row at hand.
article_row == file_list[row_index]

\* scripts/04_build_json.py, lines 39-48: the completed log has as many rows
\* as the manifest, and the batch is skipped.
SkipBatch ==
    /\ pc = "idle"
    /\ runs < MaxRuns
    /\ completed_list.exists
    /\ compare_csv_row_counts(batch_filelist_fixed, completed_list.rows)
    /\ runs' = runs + 1
    /\ attempted' = <<>>
    /\ done_at_start' = AccessionIds(completed_list.rows)
    /\ errors_at_start' = Len(error_list.rows)
    /\ exit_status' = "skipped"
    /\ UNCHANGED <<batch_size, media, shards, completed_list, error_list, pc,
                   file_list_path, file_list, row_index, json_file_path, f, f_bytes,
                   current_data, article, crashes, high_water>>
    /\ UNCHANGED not_json_vars

\* scripts/04_build_json.py, lines 50-62, and build_json up to its loop: the
\* manifest is the whole batch on a first attempt and the subset of the rows
\* not in the completed log otherwise; shard 0 of its name is created when it
\* does not exist.
StartBatch ==
    /\ pc = "idle"
    /\ runs < MaxRuns
    /\ ~(completed_list.exists
         /\ compare_csv_row_counts(batch_filelist_fixed, completed_list.rows))
    /\ runs' = runs + 1
    /\ file_list_path' = IF completed_list.exists THEN SubsetCsv ELSE FixedCsv
    /\ file_list' =
         IF completed_list.exists
         THEN create_subset_based_on_file_diff(batch_filelist_fixed, completed_list.rows)
         ELSE batch_filelist_fixed
    /\ row_index' = 1
    /\ json_file_path' = <<filelist_name(file_list_path'), 0>>
    /\ shards' = IF json_file_path' \in DOMAIN shards THEN shards
                 ELSE Update(shards, json_file_path' :> json_dump(<<>>))
    /\ pc' = "fetch"
    /\ attempted' = <<>>
    /\ done_at_start' = AccessionIds(completed_list.rows)
    /\ errors_at_start' = Len(error_list.rows)
    /\ exit_status' = "running"
    /\ UNCHANGED <<batch_size, media, completed_list, error_list, f, f_bytes, current_data,
                   article, crashes, high_water>>
    /\ UNCHANGED not_json_vars

\* A loop without the try of lines 65-78: a raise of build_nxml_metadata
\* leaves build_json and ends the script.
BuildArticle_NoTry ==
    /\ pc = "fetch"
    /\ row_index <= Len(file_list)
    /\ attempted' = Append(attempted, article_row.Accession_ID)
    /\ LET r == build_nxml_metadata(article_row, media[article_row.Accession_ID])
       IN IF r.raised
          THEN /\ ProcessGone
               /\ exit_status' = "raised"
               /\ UNCHANGED <<batch_size, media, shards, completed_list, error_list,
                              runs, crashes, done_at_start, errors_at_start, high_water>>
          ELSE /\ article' = r.value
               /\ pc' = "open"
               /\ UNCHANGED <<batch_size, media, shards, completed_list, error_list,
                              file_list_path, file_list, row_index, json_file_path,
                              f, f_bytes, current_data, runs, crashes, done_at_start, errors_at_start,
                              exit_status, high_water>>
    /\ UNCHANGED not_json_vars

\* build_json, lines 57-78: the next row's record; a raise of
\* build_nxml_metadata is logged in the error log and the default record
\* taken.
BuildArticle ==
    /\ pc = "fetch"
    /\ row_index <= Len(file_list)
    /\ LET r == ExtractMetaData(article_row, media[article_row.Accession_ID])
       IN /\ article' = r.value
          /\ error_list' =
               IF r.raised
               THEN append_row_to_csv(error_list,
                        [Accession_ID |-> article_row.Accession_ID,
                         Traceback |-> "FileNotFoundError"])
               ELSE error_list
    /\ attempted' = Append(attempted, article_row.Accession_ID)
    /\ pc' = "open"
    /\ UNCHANGED <<batch_size, media, shards, completed_list, file_list_path,
                   file_list, row_index, json_file_path, f, f_bytes, current_data, runs,
                   crashes, done_at_start, errors_at_start, exit_status, high_water>>
    /\ UNCHANGED not_json_vars

\* A load that keeps the whole records of a file it cannot decode.
OpenShard_KeepRecords ==
    /\ pc = "open"
    /\ f' = json_file_path
    /\ f_bytes' = shards[json_file_path]
    /\ LET bytes == shards[json_file_path]
           loaded == IF bytes = <<>> THEN [ok |-> TRUE, data |-> <<>>]
                     ELSE [ok |-> Parses(bytes), data |-> Records(bytes)]
       IN /\ current_data' = loaded.data
          /\ error_list' =
               IF loaded.ok THEN error_list
               ELSE append_row_to_csv(error_list,
                        [Accession_ID |-> article_row.Accession_ID,
                         Traceback |-> "JSONDecodeError"])
          /\ pc' = IF Len(loaded.data) = batch_size - 1 THEN "rotate" ELSE "dump"
    /\ UNCHANGED <<batch_size, media, shards, completed_list, file_list_path,
                   file_list, row_index, json_file_path, article, runs, crashes,
                   attempted, done_at_start, errors_at_start, exit_status, high_water>>
    /\ UNCHANGED not_json_vars

\* build_json, lines 85-97: the shard is opened 'r+' and loaded; an empty
\* file reads as [], and so does one json.load cannot decode, with a row in
\* the error log.
OpenShard ==
    /\ pc = "open"
    /\ f' = json_file_path
    /\ f_bytes' = shards[json_file_path]
    /\ LET bytes == shards[json_file_path]
           loaded == IF bytes = <<>> THEN [ok |-> TRUE, data |-> <<>>]
                     ELSE json_load(bytes)
       IN /\ current_data' = loaded.data
          /\ error_list' =
               IF loaded.ok THEN error_list
               ELSE append_row_to_csv(error_list,
                        [Accession_ID |-> article_row.Accession_ID,
                         Traceback |-> "JSONDecodeError"])
          /\ pc' = IF Len(loaded.data) = batch_size - 1 THEN "rotate" ELSE "dump"
    /\ UNCHANGED <<batch_size, media, shards, completed_list, file_list_path,
                   file_list, row_index, json_file_path, article, runs, crashes,
                   attempted, done_at_start, errors_at_start, exit_status, high_water>>
    /\ UNCHANGED not_json_vars

\* build_json, lines 99-106: the loaded list is one short of batch_size, so
\* the next shard is created, as [], and json_file_path names it from now on;
\* the file opened as f stays the one being written.
StartNewFile ==
    /\ pc = "rotate"
    /\ json_file_path' =
         <<filelist_name(file_list_path),
           get_next_index(shards, filelist_name(file_list_path))>>
    /\ shards' = Update(shards, json_file_path' :> json_dump(<<>>))
    /\ pc' = "dump"
    /\ UNCHANGED <<batch_size, media, completed_list, error_list, file_list_path,
                   file_list, row_index, f, f_bytes, current_data, article, runs, crashes,
                   attempted, done_at_start, errors_at_start, exit_status, high_water>>
    /\ UNCHANGED not_json_vars

\* build_json, lines 108-116: the record is appended to the loaded list and
\* the list written over the file f from its start, the rest truncated.
WriteShard ==
    /\ pc = "dump"
    /\ shards' = [shards EXCEPT ![f] = json_dump(Append(current_data, article))]
    /\ high_water' =
         Update(high_water, f :> Max(HighWater(f), Len(current_data) + 1))
    /\ pc' = "log"
    /\ UNCHANGED <<batch_size, media, completed_list, error_list, file_list_path,
                   file_list, row_index, json_file_path, f, f_bytes, current_data, article,
                   runs, crashes, attempted, done_at_start, errors_at_start, exit_status>>
    /\ UNCHANGED not_json_vars

\* build_json, line 121, create_log_file: the completed log is created with
\* its header when it does not exist.
CreateCompleteLog ==
    /\ pc = "log"
    /\ ~completed_list.exists
    /\ completed_list' = EmptyLog
    /\ UNCHANGED <<batch_size, media, shards, error_list, pc, file_list_path,
                   file_list, row_index, json_file_path, f, f_bytes, current_data, article,
                   runs, crashes, attempted, done_at_start, errors_at_start, exit_status, high_water>>
    /\ UNCHANGED not_json_vars

\* build_json, lines 118-122: the row's accession id is appended to the
\* completed log with json_file_path, and the loop goes on.
LogComplete ==
    /\ pc = "log"
    /\ completed_list.exists
    /\ completed_list' =
         append_row_to_csv(completed_list,
             [Accession_ID |-> article_row.Accession_ID, json_path |-> json_file_path])
    /\ row_index' = row_index + 1
    /\ pc' = "fetch"
    /\ f' = NoPath
    /\ f_bytes' = <<>>
    /\ current_data' = <<>>
    /\ article' = default_article_dict
    /\ UNCHANGED <<batch_size, media, shards, error_list, file_list_path, file_list,
                   json_file_path, runs, crashes, attempted, done_at_start, errors_at_start,
                   exit_status, high_water>>
    /\ UNCHANGED not_json_vars

\* path_generator is exhausted: build_json returns and the script ends.
EndBatch ==
    /\ pc = "fetch"
    /\ row_index > Len(file_list)
    /\ ProcessGone
    /\ exit_status' = "done"
    /\ UNCHANGED <<batch_size, media, shards, completed_list, error_list, runs,
                   crashes, attempted, done_at_start, errors_at_start, high_water>>
    /\ UNCHANGED not_json_vars

\* The process is killed between two steps.
Crash ==
    /\ pc # "idle"
    /\ crashes < MaxCrashes
    /\ crashes' = crashes + 1
    /\ ProcessGone
    /\ exit_status' = "killed"
    /\ UNCHANGED <<batch_size, media, shards, completed_list, error_list, runs,
                   attempted, done_at_start, errors_at_start, high_water>>
    /\ UNCHANGED not_json_vars

\* What a file holds when a rewrite from its start stops after k tokens:
\* the first k tokens of the new content, then what the old content had
\* beyond them.
Overwritten(old, new, k) == SubSeq(new, 1, k) \o SubSeq(old, k + 1, Len(old))

\* The process is killed inside lines 112-116, after k tokens of the new
\* content have reached the file and before f.truncate().
CrashInWrite ==
    /\ pc = "dump"
    /\ crashes < MaxCrashes
    /\ LET old == shards[f]
           new == json_dump(Append(current_data, article))
       IN \E k \in 1..Len(new) :
            /\ Overwritten(old, new, k) \notin {old, new}
            /\ shards' = [shards EXCEPT ![f] = Overwritten(old, new, k)]
    /\ crashes' = crashes + 1
    /\ ProcessGone
    /\ exit_status' = "killed"
    /\ UNCHANGED <<batch_size, media, completed_list, error_list, runs, attempted,
                   done_at_start, errors_at_start, high_water>>
    /\ UNCHANGED not_json_vars

\* The process is killed inside lines 50-51, after open(json_file_path, 'w')
\* has created shard 0 and before json.dump([], f) has reached the file.
CrashInInitialize ==
    /\ pc = "idle"
    /\ runs < MaxRuns
    /\ crashes < MaxCrashes
    /\ ~(completed_list.exists
         /\ compare_csv_row_counts(batch_filelist_fixed, completed_list.rows))
    /\ LET path == <<filelist_name(IF completed_list.exists THEN SubsetCsv ELSE FixedCsv), 0>>
       IN /\ path \notin DOMAIN shards
          /\ shards' = Update(shards, path :> <<>>)
    /\ runs' = runs + 1
    /\ crashes' = crashes + 1
    /\ attempted' = <<>>
    /\ done_at_start' = AccessionIds(completed_list.rows)
    /\ errors_at_start' = Len(error_list.rows)
    /\ exit_status' = "killed"
    /\ UNCHANGED <<batch_size, media, completed_list, error_list, pc,
                   file_list_path, file_list, row_index, json_file_path, f, f_bytes,
                   current_data, article, high_water>>
    /\ UNCHANGED not_json_vars

\* The process is killed inside lines 105-106, after open(json_file_path, 'w')
\* has created the next shard and before json.dump([], new_file) has reached it.
CrashInNewFile ==
    /\ pc = "rotate"
    /\ crashes < MaxCrashes
    /\ LET path == <<filelist_name(file_list_path),
                     get_next_index(shards, filelist_name(file_list_path))>>
       IN shards' = Update(shards, path :> <<>>)
    /\ crashes' = crashes + 1
    /\ ProcessGone
    /\ exit_status' = "killed"
    /\ UNCHANGED <<batch_size, media, completed_list, error_list, runs, attempted,
                   done_at_start, errors_at_start, high_water>>
    /\ UNCHANGED not_json_vars

JsonNext ==
    \/ SkipBatch
    \/ StartBatch
    \/ BuildArticle
    \/ OpenShard
    \/ StartNewFile
    \/ WriteShard
    \/ CreateCompleteLog
    \/ LogComplete
    \/ EndBatch
    \/ Crash
    \/ CrashInWrite
    \/ CrashInInitialize
    \/ CrashInNewFile

\* ------------------------------------------------ the JSON stage: claims

ManifestIds == AccessionIds(batch_filelist_fixed)

\* The ids a run has started on.
AttemptedIds == {attempted[i] : i \in 1..Len(attempted)}

\* The places <<path, position>> of the whole records of accession id acc.
RecordsOf(acc) ==
    {pos \in UNION {{<<p, i>> : i \in 1..Len(shards[p])} : p \in DOMAIN shards} :
        /\ shards[pos[1]][pos[2]].t = "rec"
        /\ shards[pos[1]][pos[2]].v.accession_id = acc}

FullRunEnded == pc = "idle" /\ exit_status = "done" /\ Len(attempted) = NumItems

\* C2 (idempotence): after a run that processed every row, the next
\* invocation is skipped by the row-count comparison: it changes no shard
\* file and leaves the completed log as it is.
C2_Idempotence ==
    [][FullRunEnded =>
         /\ shards' = shards
         /\ completed_list' = completed_list
         /\ exit_status' = "skipped"]_vars

\* C2, witness: the invocation after an uninterrupted first run was skipped.
C2_Witness ==
    /\ runs = 2
    /\ crashes = 0
    /\ exit_status = "skipped"
    /\ Len(completed_list.rows) = NumItems

\* C3 (no duplicated work), as claimed: whatever runs were interrupted and
\* restarted, no accession id has more than one record across the shard
\* files of the batch.
C3_NoDuplicateRecord == \A acc \in Accessions : Cardinality(RecordsOf(acc)) <= 1

\* C5 (no half-written shard), as claimed: at every instant every shard file
\* holds a complete JSON array of whole records.
C5_ShardsAlwaysParse == \A p \in DOMAIN shards : Parses(shards[p])

\* C6 (bounded shards), as claimed: after any appends and restarts, every
\* shard file holds at most batch_size records.
C6_ShardWithinBatchSize == \A p \in DOMAIN shards : RecordCount(p) <= batch_size

\* The shard files of a first, uninterrupted run after n appended records.
FirstRunAppended(n) ==
    /\ runs = 1
    /\ crashes = 0
    /\ pc = "fetch"
    /\ row_index = n + 1

\* C7 (shard rotation), as claimed: n >= 1 records appended in one run that
\* started with no shard files leave exactly ceil(n/b) shard files, every
\* one but the last with b records and the last with the rest; none is empty.
C7_ShardRotation ==
    \A n \in 1..NumItems :
        FirstRunAppended(n) =>
            LET b == batch_size
                c == (n + b - 1) \div b
                name == filelist_name(file_list_path)
            IN /\ DOMAIN shards = {<<name, i>> : i \in 0..(c - 1)}
               /\ \A i \in 0..(c - 2) : RecordCount(<<name, i>>) = b
               /\ RecordCount(<<name, c - 1>>) = n - b * (c - 1)

\* C8 (restart keeps what a shard held), as claimed: a shard file never ends
\* up, readable, with fewer records than a finished write had left in it,
\* and the shard a rotation opens has an index no existing shard file has.
C8_ShardNeverShrinks ==
    /\ \A p \in DOMAIN shards : Parses(shards[p]) => RecordCount(p) >= HighWater(p)
    /\ pc = "rotate" =>
         <<filelist_name(file_list_path),
           get_next_index(shards, filelist_name(file_list_path))>> \notin DOMAIN shards

\* The ids this run has started on whose media directory is missing, so
\* that build_nxml_metadata raised for them.
FailedIds == {acc \in AttemptedIds : ~media[acc].dir}

\* The run is over: killed, or returned after it started on every row it
\* was given, with a row in the error log for every one that raised.
RunOver ==
    /\ pc = "idle"
    /\ \/ exit_status = "killed"
       \/ /\ exit_status = "done"
          /\ AttemptedIds = ManifestIds \ done_at_start
          /\ FailedIds \subseteq AccessionIds(error_list.rows)

\* C10 (fault isolation): an exception raised for one row never ends the
\* run: a run that is not killed records the failure in the error log, goes
\* on with the next row, and ends after it has started on every row.
C10_FaultIsolation == (pc # "idle") ~> RunOver

\* C10, witness: an uninterrupted run has ended after a row raised and a
\* later row was still processed.
C10_Witness ==
    /\ exit_status = "done"
    /\ crashes = 0
    /\ runs = 1
    /\ Len(attempted) = NumItems
    /\ ~media[attempted[1]].dir
    /\ media[attempted[NumItems]].dir
    /\ attempted[1] \in AccessionIds(error_list.rows)
    /\ Cardinality(RecordsOf(attempted[NumItems])) = 1

\* The ids of the rows this run (the last one started) appended to the error
\* log, and of those it appended to the completed log.
ErrorIdsThisRun ==
    {error_list.rows[i].Accession_ID : i \in (errors_at_start + 1)..Len(error_list.rows)}

CompletedIdsThisRun == AccessionIds(completed_list.rows) \ done_at_start

\* C11 (one outcome per item), as claimed: a row a run processes ends up in
\* the completed log or in the error log, never in both logs in the same run.
C11_OneLogPerItem == ErrorIdsThisRun \cap CompletedIdsThisRun = {}

\* C21 (rotation before the append), as claimed: when the shard loaded for
\* an append holds batch_size records, the write of the record leaves that
\* shard as it is: the record goes into a new shard.
C21_NewShardWhenFull ==
    [][(pc = "dump" /\ pc' = "log" /\ Len(current_data) = batch_size)
          => shards'[f] = shards[f]]_vars

\* The row the error log ends with is the one of the row at hand, for a
\* shard that could not be decoded.
DecodeErrorLogged ==
    /\ Len(error_list.rows) > errors_at_start
    /\ error_list.rows[Len(error_list.rows)] =
         [Accession_ID |-> article_row.Accession_ID, Traceback |-> "JSONDecodeError"]

\* C22 (corrupt shard), as claimed: when the shard loaded for an append
\* cannot be parsed as JSON, the write leaves the shard as a JSON array of
\* exactly the new record, a row for the item is in the error log, and the
\* run goes on.
C22_UnparsableShardReset ==
    (pc = "log" /\ ~Parses(f_bytes)) =>
        /\ shards[f] = json_dump(<<article>>)
        /\ DecodeErrorLogged
        /\ exit_status = "running"

\* C22, amended: the same for a shard file that is not empty and cannot be
\* parsed as JSON; a file of zero bytes is not parsed at all.
C22_UndecodableShardReset ==
    (pc = "log" /\ f_bytes # <<>> /\ ~Parses(f_bytes)) =>
        /\ shards[f] = json_dump(<<article>>)
        /\ DecodeErrorLogged
        /\ exit_status = "running"

\* C22, witness: a shard torn by a kill, with whole records in it, was
\* loaded, and the write has left the new record alone in it.
C22_Witness ==
    /\ pc = "log"
    /\ ~Parses(f_bytes)
    /\ Records(f_bytes) # <<>>
    /\ shards[f] = json_dump(<<article>>)
    /\ DecodeErrorLogged

\* C27 (logged shard path), as claimed: the json_path of the row appended
\* to the completed log for an item is the shard file its record was written
\* into, also when the append opened a new shard.
C27_LoggedPathIsWrittenShard ==
    [][(pc = "log" /\ pc' = "fetch")
          => completed_list'.rows[Len(completed_list'.rows)].json_path = f]_vars

\* -------------------------------------------- the record assembler alone

AsmInit ==
    /\ in_row \in Rows
    /\ in_doc \in Docs
    /\ out_article = default_article_dict
    /\ out_raised = "pending"

AsmParked ==
    /\ in_row = BatchRow(1)
    /\ in_doc = GoodDoc
    /\ out_article = default_article_dict
    /\ out_raised = "pending"

\* build_json, lines 65-78, on one row: the record that is appended.
Assemble ==
    /\ out_raised = "pending"
    /\ LET r == ExtractMetaData(in_row, in_doc)
       IN /\ out_article' = r.value
          /\ out_raised' = IF r.raised THEN "raised" ELSE "returned"
    /\ UNCHANGED <<in_row, in_doc>>
    /\ UNCHANGED not_asm_vars

\* C9 (record schema): the record appended for a row has exactly the keys of
\* default_article_dict, fourteen of them, whatever the row and whatever the
\* media directory holds: no key is missing and no key is added.
C9_RecordHasDefaultKeys ==
    out_raised # "pending" =>
        /\ DOMAIN out_article = DOMAIN default_article_dict
        /\ Cardinality(DOMAIN out_article) = 14

\* C9, witness: build_nxml_metadata returned a record for a document that
\* cannot be parsed and a row that has a PMID, so that the fallback dict was
\* taken and its pmid popped.
C9_Witness ==
    /\ out_raised = "returned"
    /\ in_doc.nxml = "bad"
    /\ in_row.PMID # ""
    /\ out_article.pmid = in_row.PMID
    /\ out_article.title = None

\* C14 (caption distinction): in the record build_nxml_metadata returns for a
\* well-formed document with one image, the figure's caption is "" when the
\* figure is defined and its caption has no text, and "No caption found"
\* when no figure of the document matches the image.
C14_CaptionDistinction ==
    (out_raised = "returned" /\ in_doc.nxml = "good" /\ in_doc.jpg) =>
        /\ in_doc.fig = "empty" => out_article.figure_set = Figure("")
        /\ in_doc.fig = "nofig" => out_article.figure_set = Figure("No caption found")

\* C16 (identifier precedence): the record appended for a row with a
\* non-empty PMID has that PMID as its pmid; the record of a row without one
\* has the pmid extract_metadata_from_nxml found in the document, None when
\* it found none.
C16_IdentifierPrecedence ==
    out_raised # "pending" =>
        IF in_row.PMID # ""
        THEN out_article.pmid = in_row.PMID
        ELSE out_article.pmid = extract_metadata_from_nxml(in_doc).value.pmid

\* C17 (manifest-only degraded record): when the document of a row cannot be
\* parsed at all (no media directory, no .nxml file, or markup that is not
\* well-formed), the record appended for the row still has the accession id,
\* citation, license, journal and normalized date of the row.
C17_ManifestOnlyRecord ==
    (out_raised # "pending" /\ (~in_doc.dir \/ in_doc.nxml # "good")) =>
        /\ out_article.accession_id = in_row.Accession_ID
        /\ out_article.citation = OrNone(in_row.Citation)
        /\ out_article.license = OrNone(in_row.License)
        /\ out_article.journal = extract_journal(in_row.Citation)
        /\ out_article.date = ensure_unix(extract_date_from_citation(in_row.Citation))

\* C18 (abstract never null): the abstract of the record appended for a row
\* is a string, never None.
C18_AbstractNeverNull ==
    out_raised # "pending" => out_article.abstract # None

\* C23 (independent sub-extractions), as claimed: the record of a well-formed
\* document has the keywords and the categories the document holds, whether
\* or not its title group and its article ids can be read.
C23_IndependentSubExtraction ==
    (out_raised = "returned" /\ in_doc.nxml = "good") =>
        /\ out_article.keyword = in_doc.kwd
        /\ out_article.article_categories = in_doc.categories

\* ------------------------------------- scripts/05_json_to_entrez.py

\* max_attempts of json_to_entrez.
max_attempts == 10

\* The directory of the shard files the csv lists.
ShardDir == "json/"

\* Values of --out-dir-path: the directory of the shards, and another one.
OutDirs == {ShardDir, "entrez/"}

\* out_json_path of json_to_entrez_from_csv: out_dir_path + basename.
out_json_path(path) == <<out_dir_path, path>>

ShardSeq == <<"toy_0.json", "toy_1.json", "toy_2.json", "toy_3.json">>

\* load_csv_file(csv_path): the set of the paths of the csv.
all_files == {ShardSeq[i] : i \in 1..NumShards}

\* list(file_set), in some order.
RECURSIVE ListOf(_)
ListOf(file_set) ==
    IF file_set = {} THEN <<>>
    ELSE LET x == CHOOSE y \in file_set : TRUE
         IN <<[path |-> x]>> \o ListOf(file_set \ {x})

\* A log file of the post-pass that does not exist.
NoLog == [exists |-> FALSE, bytes |-> <<>>]

\* The paths a log file lists, none when it cannot be read.
LoggedPaths(log) ==
    IF log.exists /\ Parses(log.bytes)
    THEN {Records(log.bytes)[i].path : i \in 1..Len(Records(log.bytes))}
    ELSE {}

\* load_log_file(log_file_path): a missing file is created as [] and the
\* empty set returned; an existing one is json.load-ed, which raises on a
\* file that does not hold a JSON document.
load_log_file(log) ==
    IF ~log.exists
    THEN [raised |-> FALSE, value |-> {},
          file |-> [exists |-> TRUE, bytes |-> json_dump(<<>>)]]
    ELSE IF json_load(log.bytes).ok
    THEN [raised |-> FALSE, value |-> LoggedPaths(log), file |-> log]
    ELSE [raised |-> TRUE, value |-> {}, file |-> log]

\* Before the first invocation: no log, no output, no process.
EntrezFresh ==
    /\ shard_enriched = {}
    /\ completed_log = NoLog
    /\ error_log = NoLog
    /\ out_dir = {}
    /\ e_pc = "idle"
    /\ completed_files = {}
    /\ error_files = {}
    /\ remaining_files = {}
    /\ json_path = ""
    /\ attempt = 0
    /\ e_runs = 0
    /\ e_crashes = 0
    /\ e_attempted = {}
    /\ e_remaining_at_start = {}
    /\ e_exhausted = {}
    /\ e_durable = {}
    /\ e_exit = "none"

EntrezInit ==
    /\ shard_pmids \in [all_files -> BOOLEAN]
    /\ out_dir_path \in OutDirs
    /\ EntrezFresh

EntrezParked ==
    /\ shard_pmids = [p \in all_files |-> TRUE]
    /\ out_dir_path = "entrez/"
    /\ EntrezFresh

\* The process of the post-pass is gone: its variables with it.
EntrezGone ==
    /\ e_pc' = "idle"
    /\ completed_files' = {}
    /\ error_files' = {}
    /\ remaining_files' = {}
    /\ json_path' = ""
    /\ attempt' = 0

\* json_to_entrez_from_csv, lines 376-384: the csv and both logs are loaded
\* and remaining_files is all_files - completed_files.
LoadLogs ==
    /\ e_pc = "idle"
    /\ e_runs < MaxRuns
    /\ LET c == load_log_file(completed_log)
           e == load_log_file(error_log)
       IN /\ ~c.raised /\ ~e.raised
          /\ completed_log' = c.file
          /\ error_log' = e.file
          /\ completed_files' = c.value
          /\ error_files' = e.value
          /\ remaining_files' = all_files \ c.value
          /\ e_remaining_at_start' = all_files \ c.value
    /\ e_exhausted' = {}
    /\ e_runs' = e_runs + 1
    /\ e_pc' = "loop"
    /\ e_attempted' = {}
    /\ e_exit' = "running"
    /\ UNCHANGED <<shard_pmids, out_dir_path, shard_enriched, out_dir, json_path, attempt, e_crashes, e_durable>>
    /\ UNCHANGED not_entrez_vars

\* json_to_entrez_from_csv, lines 377-378: json.load raises on a log file
\* that holds no JSON document, nothing catches it and the script ends.
LoadLogsRaises ==
    /\ e_pc = "idle"
    /\ e_runs < MaxRuns
    /\ LET c == load_log_file(completed_log)
           e == load_log_file(error_log)
       IN /\ c.raised \/ e.raised
          /\ completed_log' = c.file
          /\ error_log' = IF c.raised THEN error_log ELSE e.file
    /\ e_runs' = e_runs + 1
    /\ e_attempted' = {}
    /\ e_remaining_at_start' = {}
    /\ e_exhausted' = {}
    /\ e_exit' = "raised"
    /\ UNCHANGED <<shard_pmids, out_dir_path, shard_enriched, out_dir, e_pc, completed_files, error_files,
                   remaining_files, json_path, attempt, e_crashes, e_durable>>
    /\ UNCHANGED not_entrez_vars

\* json_to_entrez_from_csv, line 386: the loop takes the next path of the
\* set remaining_files, in the set's order.
NextFile ==
    /\ e_pc = "loop"
    /\ \E path \in remaining_files :
         /\ json_path' = path
         /\ remaining_files' = remaining_files \ {path}
         /\ e_attempted' = e_attempted \cup {path}
    /\ attempt' = 0
    /\ e_pc' = "item"
    /\ UNCHANGED <<shard_pmids, out_dir_path, shard_enriched, completed_log, error_log, out_dir, completed_files,
                   error_files, e_runs, e_crashes, e_remaining_at_start, e_exhausted, e_durable,
                   e_exit>>
    /\ UNCHANGED not_entrez_vars

\* json_to_entrez, lines 269-276, and the controller's lines 396-397: no
\* record of the shard has a pmid, json_to_entrez returns without writing
\* its output file, and the path is added to completed_files.
ReturnNoPmids ==
    /\ e_pc = "item"
    /\ ~shard_pmids[json_path]
    /\ completed_files' = completed_files \cup {json_path}
    /\ e_pc' = "save_completed"
    /\ UNCHANGED <<shard_pmids, out_dir_path, shard_enriched, completed_log, error_log, out_dir, error_files,
                   remaining_files, json_path, attempt, e_runs, e_crashes,
                   e_attempted, e_remaining_at_start, e_exhausted, e_durable, e_exit>>
    /\ UNCHANGED not_entrez_vars

\* A retry loop that swallows the last failure: json_to_entrez returns and
\* the controller records the path as completed.
FetchFails_Swallow ==
    /\ e_pc = "item"
    /\ shard_pmids[json_path]
    /\ attempt < max_attempts
    /\ IF attempt + 1 < max_attempts
       THEN /\ attempt' = attempt + 1
            /\ e_pc' = "item"
            /\ completed_files' = completed_files
            /\ e_exhausted' = e_exhausted
       ELSE /\ attempt' = 0
            /\ e_pc' = "save_completed"
            /\ completed_files' = completed_files \cup {json_path}
            /\ e_exhausted' = e_exhausted \cup {json_path}
    /\ UNCHANGED <<shard_pmids, out_dir_path, shard_enriched, completed_log, error_log, out_dir, error_files,
                   remaining_files, json_path, e_runs, e_crashes, e_attempted,
                   e_remaining_at_start, e_durable, e_exit>>
    /\ UNCHANGED not_entrez_vars

\* json_to_entrez, lines 279-289: an efetch call raises; the loop sleeps
\* and tries again, and after max_attempts calls data_entrez is None, the
\* subscript of line 291 raises TypeError, and the controller's except adds
\* the path to error_files.
FetchFails ==
    /\ e_pc = "item"
    /\ shard_pmids[json_path]
    /\ attempt < max_attempts
    /\ IF attempt + 1 < max_attempts
       THEN /\ attempt' = attempt + 1
            /\ e_pc' = "item"
            /\ error_files' = error_files
            /\ e_exhausted' = e_exhausted
       ELSE /\ attempt' = 0
            /\ e_pc' = "save_error"
            /\ error_files' = error_files \cup {json_path}
            /\ e_exhausted' = e_exhausted \cup {json_path}
    /\ UNCHANGED <<shard_pmids, out_dir_path, shard_enriched, completed_log, error_log, out_dir, completed_files,
                   remaining_files, json_path, e_runs, e_crashes, e_attempted,
                   e_remaining_at_start, e_durable, e_exit>>
    /\ UNCHANGED not_entrez_vars

\* json_to_entrez, lines 283-285: an efetch call returns.
FetchSucceeds ==
    /\ e_pc = "item"
    /\ shard_pmids[json_path]
    /\ attempt < max_attempts
    /\ e_pc' = "merge"
    /\ UNCHANGED <<shard_pmids, out_dir_path, shard_enriched, completed_log, error_log, out_dir, completed_files,
                   error_files, remaining_files, json_path, attempt, e_runs,
                   e_crashes, e_attempted, e_remaining_at_start, e_exhausted, e_durable, e_exit>>
    /\ UNCHANGED not_entrez_vars

\* A merge that is saved back to the shard file itself.
WriteOutput_InPlace ==
    /\ e_pc = "merge"
    /\ out_dir' = out_dir \cup {json_path}
    /\ shard_enriched' = shard_enriched \cup {json_path}
    /\ completed_files' = completed_files \cup {json_path}
    /\ attempt' = 0
    /\ e_pc' = "save_completed"
    /\ UNCHANGED <<shard_pmids, out_dir_path, completed_log, error_log, error_files,
                   remaining_files, json_path, e_runs, e_crashes,
                   e_attempted, e_remaining_at_start, e_exhausted, e_durable, e_exit>>
    /\ UNCHANGED not_entrez_vars

\* json_to_entrez, lines 291-331, and the controller's lines 396-397: the
\* records are merged with the answer, the output copy is written, and the
\* path is added to completed_files.
WriteOutput ==
    /\ e_pc = "merge"
    /\ out_dir' = out_dir \cup {json_path}
    /\ shard_enriched' = IF out_json_path(json_path) = <<ShardDir, json_path>>
                         THEN shard_enriched \cup {json_path}
                         ELSE shard_enriched
    /\ completed_files' = completed_files \cup {json_path}
    /\ attempt' = 0
    /\ e_pc' = "save_completed"
    /\ UNCHANGED <<shard_pmids, out_dir_path, completed_log, error_log, error_files,
                   remaining_files, json_path, e_runs, e_crashes,
                   e_attempted, e_remaining_at_start, e_exhausted, e_durable, e_exit>>
    /\ UNCHANGED not_entrez_vars

\* json_to_entrez, lines 291-327: the answer does not have an article for
\* every pmid (or not the keys read from it), the merge raises, and the
\* controller's except adds the path to error_files.
MergeRaises ==
    /\ e_pc = "merge"
    /\ error_files' = error_files \cup {json_path}
    /\ attempt' = 0
    /\ e_pc' = "save_error"
    /\ UNCHANGED <<shard_pmids, out_dir_path, shard_enriched, completed_log, error_log, out_dir, completed_files,
                   remaining_files, json_path, e_runs, e_crashes,
                   e_attempted, e_remaining_at_start, e_exhausted, e_durable, e_exit>>
    /\ UNCHANGED not_entrez_vars

\* save_log_file, line 363: open(log_file_path, 'w') empties the file.
SaveCompletedOpen ==
    /\ e_pc = "save_completed"
    /\ completed_log' = [exists |-> TRUE, bytes |-> <<>>]
    /\ e_pc' = "dump_completed"
    /\ UNCHANGED <<shard_pmids, out_dir_path, shard_enriched, error_log, out_dir, completed_files, error_files,
                   remaining_files, json_path, attempt, e_runs, e_crashes,
                   e_attempted, e_remaining_at_start, e_exhausted, e_durable, e_exit>>
    /\ UNCHANGED not_entrez_vars

\* save_log_file, line 364: json.dump(list(completed_files), f), and the
\* file is closed.
SaveCompletedDump ==
    /\ e_pc = "dump_completed"
    /\ completed_log' = [exists |-> TRUE, bytes |-> json_dump(ListOf(completed_files))]
    /\ e_durable' = e_durable \cup completed_files
    /\ e_pc' = "loop"
    /\ UNCHANGED <<shard_pmids, out_dir_path, shard_enriched, error_log, out_dir, completed_files, error_files,
                   remaining_files, json_path, attempt, e_runs, e_crashes,
                   e_attempted, e_remaining_at_start, e_exhausted, e_exit>>
    /\ UNCHANGED not_entrez_vars

\* save_log_file on the error log, line 363.
SaveErrorOpen ==
    /\ e_pc = "save_error"
    /\ error_log' = [exists |-> TRUE, bytes |-> <<>>]
    /\ e_pc' = "dump_error"
    /\ UNCHANGED <<shard_pmids, out_dir_path, shard_enriched, completed_log, out_dir, completed_files, error_files,
                   remaining_files, json_path, attempt, e_runs, e_crashes,
                   e_attempted, e_remaining_at_start, e_exhausted, e_durable, e_exit>>
    /\ UNCHANGED not_entrez_vars

\* save_log_file on the error log, line 364.
SaveErrorDump ==
    /\ e_pc = "dump_error"
    /\ error_log' = [exists |-> TRUE, bytes |-> json_dump(ListOf(error_files))]
    /\ e_pc' = "loop"
    /\ UNCHANGED <<shard_pmids, out_dir_path, shard_enriched, completed_log, out_dir, completed_files, error_files,
                   remaining_files, json_path, attempt, e_runs, e_crashes,
                   e_attempted, e_remaining_at_start, e_exhausted, e_durable, e_exit>>
    /\ UNCHANGED not_entrez_vars

\* remaining_files is exhausted: json_to_entrez_from_csv returns.
EntrezEnd ==
    /\ e_pc = "loop"
    /\ remaining_files = {}
    /\ EntrezGone
    /\ e_exit' = "done"
    /\ UNCHANGED <<shard_pmids, out_dir_path, shard_enriched, completed_log, error_log, out_dir, e_runs,
                   e_crashes, e_attempted, e_remaining_at_start, e_exhausted, e_durable>>
    /\ UNCHANGED not_entrez_vars

\* The process of the post-pass is killed between two steps.
EntrezCrash ==
    /\ e_pc # "idle"
    /\ e_crashes < MaxCrashes
    /\ e_crashes' = e_crashes + 1
    /\ EntrezGone
    /\ e_exit' = "killed"
    /\ UNCHANGED <<shard_pmids, out_dir_path, shard_enriched, completed_log, error_log, out_dir, e_runs,
                   e_attempted, e_remaining_at_start, e_exhausted, e_durable>>
    /\ UNCHANGED not_entrez_vars

\* C4 (completed-log durability), as claimed: a path that a finished save of
\* the completed log has written is still listed in the completed log file
\* after a kill at any later point of the run, a kill inside a later save
\* included.
C4_CompletedLogDurable ==
    (e_pc = "idle" /\ e_exit = "killed") =>
        e_durable \subseteq LoggedPaths(completed_log)

\* C12 (the error log lists what needs a re-run), as claimed: when a run
\* returns, the error log lists exactly the shards that are not in the
\* completed log: every shard not processed with success, and none that was,
\* a shard that failed in an earlier run and succeeded in this one included.
C12_ErrorLogIsWhatRemains ==
    (e_pc = "idle" /\ e_exit = "done") =>
        LoggedPaths(error_log) = all_files \ LoggedPaths(completed_log)

\* C19 (enrichment retry): no more than max_attempts efetch calls are made
\* for one shard; a shard whose calls all failed is, while the run lasts and
\* after it returned, neither in completed_files nor in the completed log,
\* and once the save of the error log is over it is listed in the error log.
C19_RetryBounded ==
    /\ attempt < max_attempts
    /\ e_exit \in {"running", "done"} =>
          /\ e_exhausted \cap completed_files = {}
          /\ e_exhausted \cap LoggedPaths(completed_log) = {}
          /\ e_pc \notin {"save_error", "dump_error"} =>
                e_exhausted \subseteq LoggedPaths(error_log)

\* C19, witness: the calls for one shard all failed, it is in the error log,
\* and the run has gone on to another shard and is at its last call.
C19_Witness ==
    /\ e_pc = "item"
    /\ e_exhausted # {}
    /\ json_path \notin e_exhausted
    /\ attempt = max_attempts - 1
    /\ e_exhausted \subseteq LoggedPaths(error_log)

C28_CompletedHasOutputCopy == LoggedPaths(completed_log) \subseteq out_dir

\* ------------------------------- pmc_oa/build_json.py, extract_context

\* <fig> elements of the document.
NumFigs == 2
\* <p> elements of the document.
NumParas == 2
\* Figure xrefs in one <p>, one at least.
MaxMarkers == 2

\* Identifiers and file names are strings of characters.
FigIds == {<<"f", "-", "1">>, <<"f", ".", "1">>, <<"g", "2">>}

\* The <fig> elements a document is made of: id and xlink:href of the
\* graphic. The first names its image as its id normalized, as PLoS does.
FigDefs ==
    {[id |-> <<"f", "-", "1">>, href |-> <<"f", ".", "1">>],
     [id |-> <<"f", ".", "1">>, href |-> <<"a">>],
     [id |-> <<"g", "2">>, href |-> <<"b">>]}

ImageNames == {d.href : d \in FigDefs}

\* str.strip()
RECURSIVE Strip(_)
Strip(str) ==
    IF str = <<>> THEN <<>>
    ELSE IF Head(str) = " " THEN Strip(Tail(str))
    ELSE IF str[Len(str)] = " " THEN Strip(SubSeq(str, 1, Len(str) - 1))
    ELSE str

\* normalize_id(rid): stripped, every "-" replaced by "."; None (here the
\* empty string, as falsy as None) for None and for "".
normalize_id(rid) ==
    IF rid = <<>> THEN <<>>
    ELSE [i \in 1..Len(Strip(rid)) |->
            IF Strip(rid)[i] = "-" THEN "." ELSE Strip(rid)[i]]

\* map_rid_to_image(nxml_path): normalized fig id -> file name of its
\* graphic; a later fig of the same normalized id replaces an earlier one.
map_rid_to_image(figs) ==
    LET keep == {i \in 1..Len(figs) :
                    normalize_id(figs[i].id) # <<>> /\ figs[i].href # <<>>}
        last(rid) == CHOOSE i \in keep :
                        /\ normalize_id(figs[i].id) = rid
                        /\ \A j \in keep : normalize_id(figs[j].id) = rid => j <= i
    IN [rid \in {normalize_id(figs[i].id) : i \in keep} |-> figs[last(rid)].href]

\* The xrefs of root.findall(".//xref[@ref-type='fig']"), in document
\* order: <<paragraph, position in it>>.
RECURSIVE Xrefs(_, _)
Xrefs(paras, p) ==
    IF p > Len(paras) THEN <<>>
    ELSE [m \in 1..Len(paras[p]) |-> <<p, m>>] \o Xrefs(paras, p + 1)

\* find_parent(root, child): the element the xref is a child of, when it is
\* a <p>; None for an xref inside another element of the paragraph.
find_parent(paras, xref) == IF paras[xref[1]][xref[2]].nested THEN 0 ELSE xref[1]

\* clean_paragraph_except_xref(paragraph, rid_to_image_map): the paragraph's
\* text with its fig xrefs whose rid is in the map, each with its rid
\* attribute set to the image name, in the element of the tree itself.
clean_paragraph_except_xref(paragraph, rid_to_image_map) ==
    LET hit(m) == normalize_id(paragraph[m].rid) \in DOMAIN rid_to_image_map
        image(m) == rid_to_image_map[normalize_id(paragraph[m].rid)]
        marked == [m \in 1..Len(paragraph) |->
                     IF hit(m) THEN [ok |-> TRUE, rid |-> image(m)]
                     ELSE [ok |-> FALSE, rid |-> paragraph[m].rid]]
        kept == SelectSeq(marked, LAMBDA x : x.ok)
    IN [elem |-> [m \in 1..Len(paragraph) |->
                     [paragraph[m] EXCEPT !.rid = marked[m].rid]],
        xrefs |-> [k \in 1..Len(kept) |-> kept[k].rid]]

\* remove_duplicates(paragraphs): the first occurrence of each, in order.
RECURSIVE remove_duplicates(_)
remove_duplicates(paragraphs) ==
    IF paragraphs = <<>> THEN <<>>
    ELSE LET init == remove_duplicates(SubSeq(paragraphs, 1, Len(paragraphs) - 1))
             x == paragraphs[Len(paragraphs)]
         IN IF \E i \in 1..Len(init) : init[i] = x THEN init ELSE Append(init, x)

\* combine_paragraphs(paragraphs): image id -> its paragraphs, in order.
combine_paragraphs(paragraphs) ==
    [image_id \in {paragraphs[i].image_id : i \in 1..Len(paragraphs)} |->
        LET own == SelectSeq(paragraphs, LAMBDA e : e.image_id = image_id)
        IN [k \in 1..Len(own) |-> own[k].paragraph]]

Markers == [rid : FigIds, nested : BOOLEAN]

Paragraphs == UNION {[1..n -> Markers] : n \in 1..MaxMarkers}

CtxInit ==
    /\ x_figs \in [1..NumFigs -> FigDefs]
    /\ x_orig \in [1..NumParas -> Paragraphs]
    /\ x_paras = x_orig
    /\ x_i = 1
    /\ x_paragraphs = <<>>
    /\ x_context = <<>>
    /\ x_pc = "loop"
    /\ x_linked = {}

CtxParked ==
    /\ x_figs = [i \in 1..NumFigs |-> [id |-> <<"g", "2">>, href |-> <<"a">>]]
    /\ x_orig = [p \in 1..NumParas |-> <<[rid |-> <<"g", "2">>, nested |-> FALSE]>>]
    /\ x_paras = x_orig
    /\ x_i = 1
    /\ x_paragraphs = <<>>
    /\ x_context = <<>>
    /\ x_pc = "loop"
    /\ x_linked = {}

id_map == map_rid_to_image(x_figs)

\* extract_context, lines 729-736: one xref of the loop. Its rid is read
\* from the tree as it is now.
ContextXref ==
    /\ x_pc = "loop"
    /\ x_i <= Len(Xrefs(x_paras, 1))
    /\ LET xref == Xrefs(x_paras, 1)[x_i]
           rid == normalize_id(x_paras[xref[1]][xref[2]].rid)
           found == rid # <<>> /\ rid \in DOMAIN id_map
           parent_paragraph == find_parent(x_paras, xref)
           cleaned == clean_paragraph_except_xref(x_paras[xref[1]], id_map)
       IN IF found /\ parent_paragraph # 0
          THEN /\ x_paras' = [x_paras EXCEPT ![xref[1]] = cleaned.elem]
               /\ x_paragraphs' =
                    Append(x_paragraphs,
                           [image_id |-> id_map[rid],
                            paragraph |-> [p |-> xref[1], xrefs |-> cleaned.xrefs]])
               /\ x_linked' = x_linked \cup {<<xref, id_map[rid]>>}
          ELSE /\ UNCHANGED <<x_paras, x_paragraphs>>
               /\ x_linked' = IF found THEN x_linked \cup {<<xref, id_map[rid]>>}
                              ELSE x_linked
    /\ x_i' = x_i + 1
    /\ UNCHANGED <<x_figs, x_orig, x_context, x_pc>>
    /\ UNCHANGED not_ctx_vars

\* extract_context, lines 738-745: the paragraphs are combined by image id
\* and each list loses its duplicates.
ContextReturn ==
    /\ x_pc = "loop"
    /\ x_i > Len(Xrefs(x_paras, 1))
    /\ x_context' =
         [key \in DOMAIN combine_paragraphs(x_paragraphs) |->
             remove_duplicates(combine_paragraphs(x_paragraphs)[key])]
    /\ x_pc' = "done"
    /\ UNCHANGED <<x_figs, x_orig, x_paras, x_i, x_paragraphs, x_linked>>
    /\ UNCHANGED not_ctx_vars

\* The image a marker with target t resolves to, <<>> when to none.
ResolvesTo(t) ==
    IF normalize_id(t) \in DOMAIN id_map THEN id_map[normalize_id(t)] ELSE <<>>

\* The paragraphs of the document as parsed that hold a marker to image key.
ParagraphsReferring(key) ==
    {p \in 1..NumParas : \E m \in 1..Len(x_orig[p]) : ResolvesTo(x_orig[p][m].rid) = key}

\* The paragraphs whose cleaned text context[key] holds.
ParagraphsInContext(key) ==
    IF key \in DOMAIN x_context
    THEN {x_context[key][i].p : i \in 1..Len(x_context[key])}
    ELSE {}

\* C13 (context completeness), as claimed: for every figure, context of its
\* image holds the cleaned text of every paragraph with a marker that
\* resolves to the figure, also when the paragraph has markers to several
\* figures, and of no other paragraph.
C13_ContextComplete ==
    x_pc = "done" =>
        \A key \in ImageNames : ParagraphsInContext(key) = ParagraphsReferring(key)

\* C15 (identifier normalization), as claimed: a marker whose target equals
\* a figure's id after every hyphen is replaced by a dot is linked by the
\* loop of extract_context to that figure's image.
C15_NormalizedIdsLink ==
    x_pc = "done" =>
        \A p \in 1..NumParas : \A m \in 1..Len(x_orig[p]) : \A i \in 1..NumFigs :
            normalize_id(x_orig[p][m].rid) = normalize_id(x_figs[i].id) =>
                <<<<p, m>>, ResolvesTo(x_figs[i].id)>> \in x_linked

\* C24 (nearest ancestor paragraph), as claimed: for every marker whose
\* normalized target the loop found in the mapping, the paragraph that holds
\* the marker is in the context of the image, also when the marker is inside
\* inline markup of the paragraph.
C24_NearestAncestorParagraph ==
    x_pc = "done" =>
        \A t \in x_linked : t[1][1] \in ParagraphsInContext(t[2])

\* --------------------- pmc_oa/build_json.py, clean_paragraph_except_xref

\* Child elements of one element of the paragraph.
MaxChildren == 2

\* An element of the tree: tag, ref-type and rid attributes, text, child
\* elements, and the tail text that follows its end tag.
Element(tag, reftype, rid, text, children, tail) ==
    [tag |-> tag, reftype |-> reftype, rid |-> rid, text |-> text,
     children |-> children, tail |-> tail]

\* <xref ref-type="fig"> elements: to a figure of the mapping or to none,
\* followed by tail text or not.
FigXrefs ==
    {Element("xref", "fig", rid, <<"F">>, <<>>, tail) :
        rid \in {<<"g", "2">>, <<"z">>}, tail \in {<<>>, <<"t">>}}

\* <xref ref-type="bibr"> elements, markup like any other.
OtherXrefs == {Element("xref", "bibr", <<"r">>, <<"1">>, <<>>, tail) : tail \in {<<>>, <<"u">>}}

\* <bold> elements, with a fig xref inside or without.
Bolds ==
    {Element("bold", "", <<>>, <<"B">>, children, <<"v">>) :
        children \in {<<>>} \cup {<<x>> : x \in FigXrefs}}

Inlines == FigXrefs \cup OtherXrefs \cup Bolds

\* The <p> elements: text, up to MaxChildren inline elements, and the
\* text between </p> and the next element as tail.
PElements ==
    {Element("p", "", <<>>, text, children, tail) :
        text \in {<<>>, <<"A">>},
        children \in UNION {[1..n -> Inlines] : n \in 0..MaxChildren},
        tail \in {<<>>, <<"Z">>}}

\* The identifier mapping the cleaner is given.
CleanMap == (<<"g", "2">> :> <<"b">>)

\* The characters of a text, as parts of the cleaned text.
Chars(text) == [i \in 1..Len(text) |-> [k |-> "chr", v |-> <<text[i]>>, t |-> <<>>]]

\* A fig xref kept as markup, with the rid it has.
XrefPart(rid, text) == [k |-> "xref", v |-> rid, t |-> text]

\* ET.tostring(elem, encoding='unicode', method='xml') of an xref without
\* child elements: the element, and the tail text that follows it.
tostring(elem) == <<XrefPart(elem.rid, elem.text)>> \o Chars(elem.tail)

\* process_element(elem) of clean_paragraph_except_xref: the parts it
\* appends to cleaned_parts.
RECURSIVE process_element(_, _)
process_element(elem, rid_to_image_map) ==
    LET rid == normalize_id(elem.rid)
        own == IF elem.tag = "xref" /\ elem.reftype = "fig"
               THEN IF rid \in DOMAIN rid_to_image_map
                    THEN tostring([elem EXCEPT !.rid = rid_to_image_map[rid]])
                    ELSE <<>>
               ELSE Chars(elem.text)
        RECURSIVE children(_)
        children(i) ==
            IF i > Len(elem.children) THEN <<>>
            ELSE process_element(elem.children[i], rid_to_image_map) \o children(i + 1)
    IN own \o children(1) \o Chars(elem.tail)

\* The content of an element with its fig xrefs to a figure of the mapping
\* kept as markers of the image, and all other markup replaced by its text:
\* text, then each child and the tail after it, in document order.
RECURSIVE Flattened(_, _)
Flattened(elem, rid_to_image_map) ==
    LET rid == normalize_id(elem.rid)
        RECURSIVE children(_)
        children(i) ==
            IF i > Len(elem.children) THEN <<>>
            ELSE Flattened(elem.children[i], rid_to_image_map)
                   \o Chars(elem.children[i].tail) \o children(i + 1)
    IN IF elem.tag = "xref" /\ elem.reftype = "fig" /\ rid \in DOMAIN rid_to_image_map
       THEN <<XrefPart(rid_to_image_map[rid], elem.text)>>
       ELSE Chars(elem.text) \o children(1)

CleanInit ==
    /\ c_paragraph \in PElements
    /\ c_cleaned = <<>>
    /\ c_pc = "call"

CleanParked ==
    /\ c_paragraph = Element("p", "", <<>>, <<"A">>, <<>>, <<>>)
    /\ c_cleaned = <<>>
    /\ c_pc = "call"

\* clean_paragraph_except_xref(paragraph, rid_to_image_map), lines 772-791.
CleanParagraph ==
    /\ c_pc = "call"
    /\ c_cleaned' = process_element(c_paragraph, CleanMap)
    /\ c_pc' = "done"
    /\ UNCHANGED c_paragraph
    /\ UNCHANGED not_clean_vars

\* C25 (cleaned text), as claimed: the cleaned text of a paragraph is its
\* content with every text and tail character once and in document order,
\* the fig xrefs kept as markers of the resolved image, all other markup
\* replaced by its text.
C25_CleanedTextExact ==
    c_pc = "done" => c_cleaned = Flattened(c_paragraph, CleanMap)

\* ------------------- pmc_oa/download_batch.py, download_media_from_filelist

\* max_retry of download_media.
max_retry == 3

\* Before the download stage runs: no media directory, no log.
DlParked ==
    /\ d_media = {}
    /\ d_completed = <<>>
    /\ d_error = <<>>
    /\ d_pc = "idle"
    /\ d_row = 1
    /\ retries = 0
    /\ transfers = 0
    /\ d_got = FALSE

\* The stage is started on the manifest; media directories of an earlier
\* invocation may be there.
DlInit ==
    /\ d_media \in SUBSET ManifestIds
    /\ d_completed = <<>>
    /\ d_error = <<>>
    /\ d_pc = "loop"
    /\ d_row = 1
    /\ retries = 0
    /\ transfers = 0
    /\ d_got = FALSE

\* The accession id of the row the loop is at.
DlId == AccessionSeq[d_row]

\* download_media_from_filelist, lines 123-139: both handlers append the row
\* with the exception as its Traceback to the error log, and the loop goes
\* on with the next row.
LogDownloadError(traceback) ==
    /\ d_error' = Append(d_error, [Accession_ID |-> DlId, Traceback |-> traceback])
    /\ d_row' = d_row + 1
    /\ d_pc' = "loop"
    /\ UNCHANGED d_completed

\* download_media, lines 44-50, and the caller's line 113: the extracted
\* directory exists, download_media returns None, and the caller's tuple
\* assignment raises TypeError, which its second handler logs.
DownloadExists ==
    /\ d_pc = "loop"
    /\ d_row <= NumItems
    /\ DlId \in d_media
    /\ LogDownloadError("TypeError")
    /\ retries' = 0
    /\ transfers' = 0
    /\ d_got' = FALSE
    /\ UNCHANGED d_media
    /\ UNCHANGED not_dl_vars

\* download_media, lines 29-52: the directory is not there, retries = 0 and
\* the while loop is entered.
DownloadBegin ==
    /\ d_pc = "loop"
    /\ d_row <= NumItems
    /\ DlId \notin d_media
    /\ retries' = 0
    /\ transfers' = 0
    /\ d_got' = FALSE
    /\ d_pc' = "try"
    /\ UNCHANGED <<d_media, d_completed, d_error, d_row>>
    /\ UNCHANGED not_dl_vars

\* download_media, lines 53-58: the transfer of the try block completes,
\* and break leaves the loop.
TransferCompletes ==
    /\ d_pc = "try"
    /\ transfers' = transfers + 1
    /\ d_got' = TRUE
    /\ d_pc' = "after"
    /\ UNCHANGED <<d_media, d_completed, d_error, d_row, retries>>
    /\ UNCHANGED not_dl_vars

\* download_media, lines 60-64 and 68-72: the transfer of the try block
\* raises; the handler counts a retry, sleeps and reconnects.
TransferRaises ==
    /\ d_pc = "try"
    /\ transfers' = transfers + 1
    /\ d_got' = FALSE
    /\ retries' = retries + 1
    /\ d_pc' = "handler"
    /\ UNCHANGED <<d_media, d_completed, d_error, d_row>>
    /\ UNCHANGED not_dl_vars

\* download_media, lines 65-66 and 73-74: the transfer inside the handler
\* completes; there is no break, so the while condition is tested again.
HandlerTransferCompletes ==
    /\ d_pc = "handler"
    /\ transfers' = transfers + 1
    /\ d_got' = TRUE
    /\ d_pc' = IF retries < max_retry THEN "try" ELSE "after"
    /\ UNCHANGED <<d_media, d_completed, d_error, d_row, retries>>
    /\ UNCHANGED not_dl_vars

\* download_media, lines 64-66 and 72-74: reconnect_ftp or the transfer
\* inside the handler raises; nothing in download_media catches it, and the
\* caller logs it.
HandlerRaises ==
    /\ d_pc = "handler"
    /\ \E reconnected \in BOOLEAN :
         transfers' = IF reconnected THEN transfers + 1 ELSE transfers
    /\ d_got' = FALSE
    /\ LogDownloadError("ftp error")
    /\ UNCHANGED <<d_media, retries>>
    /\ UNCHANGED not_dl_vars

\* download_media, lines 76-77: retries = max_retry after the loop, and
\* the function raises, which the caller logs.
RaiseFailedToDownload ==
    /\ d_pc = "after"
    /\ retries = max_retry
    /\ LogDownloadError("Failed to download after 3 retries")
    /\ UNCHANGED <<d_media, retries, transfers, d_got>>
    /\ UNCHANGED not_dl_vars

\* download_media, lines 79-91, and the caller's lines 118-145: the archive
\* is unpacked and removed, the directory of the accession id is there, and
\* the row is appended to the completed log.
Unpack ==
    /\ d_pc = "after"
    /\ retries # max_retry
    /\ d_media' = d_media \cup {DlId}
    /\ d_completed' = Append(d_completed, DlId)
    /\ d_row' = d_row + 1
    /\ d_pc' = "loop"
    /\ UNCHANGED <<d_error, retries, transfers, d_got>>
    /\ UNCHANGED not_dl_vars

\* download_media, line 81, and the caller's lines 120-121: the archive
\* cannot be unpacked, or does not hold the directory of the accession id;
\* the caller logs the exception.
UnpackRaises ==
    /\ d_pc = "after"
    /\ retries # max_retry
    /\ \E traceback \in {"ReadError", "Path doesn't exist"} :
         LogDownloadError(traceback)
    /\ UNCHANGED <<d_media, retries, transfers, d_got>>
    /\ UNCHANGED not_dl_vars

\* path_generator is exhausted: download_media_from_filelist returns.
DownloadEnd ==
    /\ d_pc = "loop"
    /\ d_row > NumItems
    /\ d_pc' = "done"
    /\ UNCHANGED <<d_media, d_completed, d_error, d_row, retries, transfers, d_got>>
    /\ UNCHANGED not_dl_vars

\* C20 (archive fetch retry), as claimed: no more than max_retry transfers
\* are made for one row of the manifest.
C20_TransferCap == transfers <= max_retry

\* C29 (item already downloaded), as claimed: a row whose extracted
\* directory is there when the loop reaches it is not transferred again, and
\* no row is appended to the error log for it; the loop goes on with the
\* next row.
C29_ExistingNotAnError ==
    [][(d_pc = "loop" /\ d_row <= NumItems /\ DlId \in d_media)
          => /\ transfers' = 0
             /\ d_pc' = "loop"
             /\ d_row' = d_row + 1
             /\ d_error' = d_error]_vars

\* C30 (failure only when no transfer succeeded), as claimed: once a
\* transfer made for the row has completed, no further transfer is made for
\* the row and the retries-exhausted error is not logged for it.
C30_SuccessEndsTransfers ==
    [][(d_got /\ d_pc \in {"try", "handler", "after"})
          => /\ transfers' = transfers
             /\ \/ d_error' = d_error
                \/ d_error'[Len(d_error')].Traceback # "Failed to download after 3 retries"]_vars

\* ------------------------------------------------------- specifications

Init == JsonInit /\ AsmParked /\ EntrezParked /\ CtxParked /\ DlParked /\ CleanParked

Next == JsonNext

\* The JSON stage: scripts/04_build_json.py run again and again on one
\* batch, killed at most MaxCrashes times.
Spec == Init /\ [][Next]_vars

\* A running script takes its next step unless it is killed; nothing makes
\* anybody start it again.
JsonStep ==
    \/ BuildArticle
    \/ OpenShard
    \/ StartNewFile
    \/ WriteShard
    \/ CreateCompleteLog
    \/ LogComplete
    \/ EndBatch

LiveSpec == Init /\ [][Next]_vars /\ WF_vars(JsonStep)

AssembleInit == JsonParked /\ AsmInit /\ EntrezParked /\ CtxParked /\ DlParked /\ CleanParked

AssembleNext == Assemble

\* The record assembler on every row and every media directory.
AssembleSpec == AssembleInit /\ [][AssembleNext]_vars

EntrezNext ==
    \/ LoadLogs
    \/ LoadLogsRaises
    \/ NextFile
    \/ ReturnNoPmids
    \/ FetchFails
    \/ FetchSucceeds
    \/ WriteOutput
    \/ MergeRaises
    \/ SaveCompletedOpen
    \/ SaveCompletedDump
    \/ SaveErrorOpen
    \/ SaveErrorDump
    \/ EntrezEnd
    \/ EntrezCrash

EntrezInitAll == JsonParked /\ AsmParked /\ EntrezInit /\ CtxParked /\ DlParked /\ CleanParked

\* scripts/05_json_to_entrez.py run again and again on one csv, killed at
\* most MaxCrashes times.
EntrezSpec == EntrezInitAll /\ [][EntrezNext]_vars

ContextInit == JsonParked /\ AsmParked /\ EntrezParked /\ CtxInit /\ DlParked /\ CleanParked

ContextNext ==
    \/ ContextXref
    \/ ContextReturn

\* extract_context on every document of the bounds.
ContextSpec == ContextInit /\ [][ContextNext]_vars

\* download_media_from_filelist on one manifest.
DownloadInit == JsonParked /\ AsmParked /\ EntrezParked /\ CtxParked /\ DlInit /\ CleanParked

DownloadNext ==
    \/ DownloadExists
    \/ DownloadBegin
    \/ TransferCompletes
    \/ TransferRaises
    \/ HandlerTransferCompletes
    \/ HandlerRaises
    \/ RaiseFailedToDownload
    \/ Unpack
    \/ UnpackRaises
    \/ DownloadEnd

DownloadSpec == DownloadInit /\ [][DownloadNext]_vars

\* clean_paragraph_except_xref on one paragraph.
CleanInitAll == JsonParked /\ AsmParked /\ EntrezParked /\ CtxParked /\ DlParked /\ CleanInit

CleanNext == CleanParagraph

CleanSpec == CleanInitAll /\ [][CleanNext]_vars

====
